---- MODULE Spec2Model ----
(***************************************************************************)
(* Model of src/app.py: a Streamlit dashboard over a static table of       *)
(* company-year records.  Every interaction reruns main(): load_data       *)
(* (cached), the sidebar widgets, filter_data, and one of four page        *)
(* renderers.  Money amounts and percentages are integers; a formatted     *)
(* number ("{:.2f}") is <<count of its last printed digit, printed sign>>.  *)
(* A value that may be None/NaN is a sequence: <<>> or <<v>>.              *)
(***************************************************************************)
EXTENDS Integers, Sequences, FiniteSets, TLC

\* ---------------------------------------------------------------- bounds
\* longest generated table
MaxRows == 12
\* generated tables are Dataset(seed, n), seed in 0..MaxSeed
MaxSeed == 2
\* longest table of the specification that snapshots renders (SpecReactive)
MaxRowsReactive == 2

\* ------------------------------------------------------ program constants
\* nlargest(10)
TopN == 10

\* the four entries of the navigation selectbox, in order
Pages == <<"Visao Geral", "Analise por Empresa", "Analise por Setor", "Tendencias Temporais">>

\* ------------------------------------------------------------ value pools
\* company names, listed in lexicographic (Python str) order
Companies == <<"A", "B", "C", "D", "E", "F", "G", "H", "I", "J", "K", "L", "M">>
\* sector names, listed in lexicographic order
Sectors == <<"Finance", "Tech">>
Countries == <<"Brasil", "EUA">>
Uses == <<"Automacao", "Chatbots", "Previsao">>
Impacts == <<"Alto", "Baixo", "Medio">>

Range(s) == {s[i] : i \in 1..Len(s)}
Min(a, b) == IF a <= b THEN a ELSE b
Max(a, b) == IF a >= b THEN a ELSE b

\* one row of the table (a line of data/avanco_ia_empresas.csv)
Row(s, i) ==
    [empresa |-> Companies[((i - 1) % Max(1, Len(Companies) - 4 * s)) + 1],
     pais_sede |-> Countries[(((i - 1) \div (s + 1)) % Len(Countries)) + 1],
     setor |-> Sectors[(((i \div 2) + s) % Len(Sectors)) + 1],
     ano |-> 2020 + ((i + s) % 2),
     investimento_ia_usd_milhoes |-> (((i * (s + 3)) % 4) + 1) * 10,
     crescimento_lucro_pct |-> ((i * 5 + s) % 7) - 2,
     nota_inovacao |-> ((i + 2 * s) % 5) + 1,
     principais_usos_ia |-> Uses[((i * (s + 1)) % Len(Uses)) + 1],
     impacto_operacional |-> Impacts[((i + s) % Len(Impacts)) + 1]]

Dataset(s, n) == [i \in 1..n |-> Row(s, i)]

\* the two-record scenario: A (Finance, 2020, 10, 5%), B (Finance, 2021, 20, -2%)
ExampleDataset ==
    << [empresa |-> "A", pais_sede |-> "Brasil", setor |-> "Finance", ano |-> 2020,
        investimento_ia_usd_milhoes |-> 10, crescimento_lucro_pct |-> 5,
        nota_inovacao |-> 3, principais_usos_ia |-> "Chatbots",
        impacto_operacional |-> "Alto"],
       [empresa |-> "B", pais_sede |-> "EUA", setor |-> "Finance", ano |-> 2021,
        investimento_ia_usd_milhoes |-> 20, crescimento_lucro_pct |-> -2,
        nota_inovacao |-> 4, principais_usos_ia |-> "Previsao",
        impacto_operacional |-> "Medio"] >>

\* the tables the csv file may hold
Datasets == {Dataset(s, n) : s \in 0..MaxSeed, n \in 0..MaxRows} \cup {ExampleDataset}

\* ----------------------------------------------------------- pandas helpers
\* df[col]
Column(df, col) == [i \in 1..Len(df) |-> df[i][col]]

\* Series.unique(): the distinct values in order of first appearance
RECURSIVE unique(_)
unique(s) ==
    IF s = <<>> THEN <<>>
    ELSE LET r == unique(SubSeq(s, 1, Len(s) - 1))
             x == s[Len(s)]
         IN IF x \in Range(r) THEN r ELSE Append(r, x)

\* Series.sum()
RECURSIVE SeriesSum(_)
SeriesSum(s) == IF s = <<>> THEN 0 ELSE s[1] + SeriesSum(Tail(s))

\* Series.min() / Series.max() of a non-empty integer column
SeriesMin(s) == CHOOSE m \in Range(s) : \A x \in Range(s) : m <= x
SeriesMax(s) == CHOOSE m \in Range(s) : \A x \in Range(s) : m >= x

\* Series.isin(values)
isin(x, values) == x \in values

\* 2^e mod n
RECURSIVE PowMod(_, _)
PowMod(e, n) == IF e = 0 THEN 1 % n ELSE (2 * PowMod(e - 1, n)) % n

\* floor(log2(m / b)) for m > 0, b > 0
RECURSIVE Log2Floor(_, _)
Log2Floor(m, b) ==
    IF m >= 2 * b THEN Log2Floor(m, 2 * b) + 1
    ELSE IF m < b THEN Log2Floor(2 * m, b) - 1
    ELSE 0

\* A float holds the double (53-bit significand, round to nearest) nearest to
\* the quotient.  For m > 0 and odd b not dividing m: is the double nearest to
\* m / (b * 2^j) above it?  (The same for every j: scaling by 2 is exact.)
\* With 2^52 <= m * 2^e / b < 2^53 the significand is m * 2^e / b rounded to
\* an integer, which rounds up iff the remainder of m * 2^e by b exceeds b / 2.
DoubleAbove(m, b) ==
    LET e == 52 - Log2Floor(m, b)
        r == ((m % b) * PowMod(e, b)) % b
    IN 2 * r > b

\* format(x, ".{d}f") of the float x = num / den (den > 0), scale = 10^d, odd =
\* 5^d: <<count, sign>>, the printed digits as a count of units of 1 / scale
\* and the printed sign ("-" is printed for every negative x, also "-0.00").
\* Python prints the decimal nearest to the double.  The double is so close to
\* num / den that this is the decimal nearest to num / den, except when
\* num / den lies exactly between two decimals: then a double equal to it
\* (odd divides 2q + 1) goes to the even digit, and any other double goes to
\* the side it lies on.
FormatFixed(num, den, scale, odd) ==
    LET q == (scale * num) \div den
        r == (scale * num) % den
        m == 2 * q + 1
        a == IF m < 0 THEN -m ELSE m
        count == IF 2 * r < den THEN q
                 ELSE IF 2 * r > den THEN q + 1
                 ELSE IF a % odd = 0 THEN (IF q % 2 = 0 THEN q ELSE q + 1)
                 ELSE IF DoubleAbove(a, odd) = (m > 0) THEN q + 1
                 ELSE q
    IN <<count, IF num < 0 THEN "-" ELSE "">>

\* f"{num / den:.2f}"
Format2f(num, den) == FormatFixed(num, den, 100, 25)

\* f"{num / den:.1f}"
Format1f(num, den) == FormatFixed(num, den, 10, 5)

\* Series.mean() printed with "{:.2f}": <<>> stands for "nan" (empty series)
MeanFormat2f(s) == IF s = <<>> THEN <<>> ELSE <<Format2f(SeriesSum(s), Len(s))>>
MeanFormat1f(s) == IF s = <<>> THEN <<>> ELSE <<Format1f(SeriesSum(s), Len(s))>>

\* ------------------------------------------------------------- filter_data
filter_data_exclusive_upper(df, countries, sectors, year_range) ==
    SelectSeq(df, LAMBDA r :
        /\ isin(r.pais_sede, countries)
        /\ isin(r.setor, sectors)
        /\ r.ano >= year_range[1]
        /\ r.ano < year_range[2])

filter_data_empty_means_all(df, countries, sectors, year_range) ==
    SelectSeq(df, LAMBDA r :
        /\ (countries = {} \/ isin(r.pais_sede, countries))
        /\ (sectors = {} \/ isin(r.setor, sectors))
        /\ r.ano >= year_range[1]
        /\ r.ano <= year_range[2])

filter_data_or(df, countries, sectors, year_range) ==
    SelectSeq(df, LAMBDA r :
        /\ (isin(r.pais_sede, countries) \/ isin(r.setor, sectors))
        /\ r.ano >= year_range[1]
        /\ r.ano <= year_range[2])

\* df[isin(countries) & isin(sectors) & (ano >= lo) & (ano <= hi)]
filter_data(df, countries, sectors, year_range) ==
    SelectSeq(df, LAMBDA r :
        /\ isin(r.pais_sede, countries)
        /\ isin(r.setor, sectors)
        /\ r.ano >= year_range[1]
        /\ r.ano <= year_range[2])

\* ---------------------------------------------------------- aggregations
\* the keys of a groupby, which pandas sorts: the members of `present` in pool order
SortedKeys(pool, present) == SelectSeq(pool, LAMBDA k : k \in present)

\* the years of df in ascending order
SortedYears(df) ==
    IF df = <<>> THEN <<>>
    ELSE LET lo == SeriesMin(Column(df, "ano"))
             hi == SeriesMax(Column(df, "ano"))
         IN SelectSeq([i \in 1..(hi - lo + 1) |-> lo + i - 1],
                      LAMBDA y : y \in Range(Column(df, "ano")))

\* the rows of df whose column col equals k
RowsWhere(df, col, k) == SelectSeq(df, LAMBDA r : r[col] = k)

\* total investment of a table
Investment(df) == SeriesSum(Column(df, "investimento_ia_usd_milhoes"))

\* df.groupby(col)[investimento].sum().reset_index(), keys given in sorted order
groupby_sum(df, col, keys) ==
    [i \in 1..Len(keys) |-> <<keys[i], Investment(RowsWhere(df, col, keys[i]))>>]

\* the pairs <<key, value>> sorted by value, largest first; equal values keep
\* their order (keep='first')
RECURSIVE sort_desc(_)
sort_desc(s) ==
    IF s = <<>> THEN <<>>
    ELSE LET rest == sort_desc(Tail(s))
             x == s[1]
             k == Cardinality({j \in 1..Len(rest) : rest[j][2] > x[2]})
         IN SubSeq(rest, 1, k) \o <<x>> \o SubSeq(rest, k + 1, Len(rest))

nlargest_ascending(s, n) ==
    LET d == sort_desc(s)
        a == [i \in 1..Len(d) |-> d[Len(d) + 1 - i]]
    IN SubSeq(a, 1, Min(n, Len(a)))

\* Series.nlargest(n)
nlargest(s, n) == SubSeq(sort_desc(s), 1, Min(n, Len(s)))

\* filtered_df.groupby('empresa')[investimento].sum().nlargest(10).reset_index()
top_companies(df) ==
    nlargest(groupby_sum(df, "empresa",
                         SortedKeys(Companies, Range(Column(df, "empresa")))), TopN)

pie_slices_first_row(df, names) ==
    LET labels == unique(Column(df, names))
    IN [i \in 1..Len(labels) |->
          <<labels[i], RowsWhere(df, names, labels[i])[1].investimento_ia_usd_milhoes>>]

\* px.pie(df, names=..., values=investimento): one slice per distinct label, in
\* order of first appearance, the values of the rows sharing a label added up
pie_slices(df, names) ==
    LET labels == unique(Column(df, names))
    IN [i \in 1..Len(labels) |-> <<labels[i], Investment(RowsWhere(df, names, labels[i]))>>]

\* Series.value_counts(): the pairs <<value, occurrences>>
value_counts(s) == {<<v, Cardinality({i \in 1..Len(s) : s[i] = v})>> : v \in Range(s)}

\* Series.nunique()
nunique(s) == Cardinality(Range(s))

\* Pearson correlation of two columns of equal length n, kept exact: <<>> is
\* NaN (a column without variance), <<c, vx, vy>> is c / sqrt(vx * vy) with
\* c = n*Sxy - Sx*Sy, vx = n*Sxx - Sx*Sx, vy = n*Syy - Sy*Sy
corr_pair(x, y) ==
    LET n == Len(x)
        prod(a, b) == [i \in 1..n |-> a[i] * b[i]]
        c == n * SeriesSum(prod(x, y)) - SeriesSum(x) * SeriesSum(y)
        vx == n * SeriesSum(prod(x, x)) - SeriesSum(x) * SeriesSum(x)
        vy == n * SeriesSum(prod(y, y)) - SeriesSum(y) * SeriesSum(y)
    IN IF vx = 0 \/ vy = 0 THEN <<>> ELSE <<c, vx, vy>>

\* the columns select_dtypes(include=["float64", "int64"]) keeps
NumericCols == <<"ano", "investimento_ia_usd_milhoes", "crescimento_lucro_pct", "nota_inovacao">>

\* numeric_cols.corr()
corr(df) ==
    [i \in 1..Len(NumericCols) |->
        [j \in 1..Len(NumericCols) |->
            corr_pair(Column(df, NumericCols[i]), Column(df, NumericCols[j]))]]

\* ------------------------------------------------------------------ pages
\* What a page put on the screen: its name, the options and the value of its
\* own selectbox (<<>> when it has none / returns None), whether st.warning
\* was shown, the st.metric values and the chart inputs, in call order.

render_overview_page_counts_rows(filtered_df) ==
    [page |-> Pages[1], options |-> <<>>, selected |-> <<>>, warning |-> FALSE,
     metrics |-> << <<"Total Investido", Format2f(Investment(filtered_df), 1)>>,
                    <<"Numero de Empresas", Len(filtered_df)>>,
                    <<"Crescimento Medio de Lucro",
                      MeanFormat2f(Column(filtered_df, "crescimento_lucro_pct"))>> >>,
     charts |-> << <<"line", groupby_sum(filtered_df, "ano", SortedYears(filtered_df))>>,
                   <<"bar", top_companies(filtered_df)>>,
                   <<"pie", pie_slices(filtered_df, "setor")>> >>]

render_overview_page(filtered_df) ==
    [page |-> Pages[1], options |-> <<>>, selected |-> <<>>, warning |-> FALSE,
     metrics |-> << <<"Total Investido", Format2f(Investment(filtered_df), 1)>>,
                    <<"Numero de Empresas", nunique(Column(filtered_df, "empresa"))>>,
                    <<"Crescimento Medio de Lucro",
                      MeanFormat2f(Column(filtered_df, "crescimento_lucro_pct"))>> >>,
     charts |-> << <<"line", groupby_sum(filtered_df, "ano", SortedYears(filtered_df))>>,
                   <<"bar", top_companies(filtered_df)>>,
                   <<"pie", pie_slices(filtered_df, "setor")>> >>]

\* the page after st.warning(...); return
NoDataPage(name, options, selected) ==
    [page |-> name, options |-> options, selected |-> selected, warning |-> TRUE,
     metrics |-> <<>>, charts |-> <<>>]

CompanyContent(df_company, options, selected_company) ==
    [page |-> Pages[2], options |-> options, selected |-> selected_company,
     warning |-> FALSE,
     metrics |-> << <<"Investimento Medio Anual",
                      MeanFormat2f(Column(df_company, "investimento_ia_usd_milhoes"))>>,
                    <<"Crescimento Medio de Lucro",
                      MeanFormat2f(Column(df_company, "crescimento_lucro_pct"))>> >>,
     charts |-> << <<"scatter+bar",
                     [i \in 1..Len(df_company) |->
                        <<df_company[i].ano, df_company[i].investimento_ia_usd_milhoes,
                          df_company[i].crescimento_lucro_pct>>]>>,
                   <<"bar", value_counts(Column(df_company, "principais_usos_ia"))>> >>]

render_company_page_no_guard(filtered_df, selected_company) ==
    CompanyContent(
        IF selected_company = <<>> THEN <<>>
        ELSE RowsWhere(filtered_df, "empresa", selected_company[1]),
        unique(Column(filtered_df, "empresa")), selected_company)

\* selected_company is what st.selectbox returned: <<c>>, or <<>> for None
render_company_page(filtered_df, selected_company) ==
    LET options == unique(Column(filtered_df, "empresa"))
        df_company == IF selected_company = <<>> THEN <<>>
                      ELSE RowsWhere(filtered_df, "empresa", selected_company[1])
    IN IF df_company = <<>>
       THEN NoDataPage(Pages[2], options, selected_company)
       ELSE CompanyContent(df_company, options, selected_company)

\* selected_sector is what st.selectbox returned: <<s>>, or <<>> for None
render_sector_page(filtered_df, selected_sector) ==
    LET options == unique(Column(filtered_df, "setor"))
        df_sector == IF selected_sector = <<>> THEN <<>>
                     ELSE RowsWhere(filtered_df, "setor", selected_sector[1])
    IN IF df_sector = <<>>
       THEN NoDataPage(Pages[3], options, selected_sector)
       ELSE [page |-> Pages[3], options |-> options, selected |-> selected_sector,
             warning |-> FALSE,
             metrics |-> << <<"Total Investido", Format2f(Investment(df_sector), 1)>>,
                            <<"Empresas no Setor", nunique(Column(df_sector, "empresa"))>>,
                            <<"Nota Media de Inovacao",
                              MeanFormat1f(Column(df_sector, "nota_inovacao"))>> >>,
             charts |-> << <<"scatter",
                             [i \in 1..Len(df_sector) |->
                                <<df_sector[i].investimento_ia_usd_milhoes,
                                  df_sector[i].crescimento_lucro_pct,
                                  df_sector[i].nota_inovacao, df_sector[i].empresa>>]>>,
                           <<"pie", value_counts(Column(df_sector, "impacto_operacional"))>> >>]

\* filtered_df.groupby(["setor", "ano"])[investimento].sum().reset_index()
groupby_sector_year(df) ==
    LET keys == SortedKeys(Sectors, Range(Column(df, "setor")))
        of(k) == groupby_sum(RowsWhere(df, "setor", k), "ano",
                             SortedYears(RowsWhere(df, "setor", k)))
        RECURSIVE flat(_)
        flat(i) == IF i > Len(keys) THEN <<>>
                   ELSE [j \in 1..Len(of(keys[i])) |->
                            <<keys[i], of(keys[i])[j][1], of(keys[i])[j][2]>>] \o flat(i + 1)
    IN flat(1)

render_trends_page(filtered_df) ==
    [page |-> Pages[4], options |-> <<>>, selected |-> <<>>, warning |-> FALSE,
     metrics |-> <<>>,
     charts |-> << <<"line", groupby_sector_year(filtered_df)>>,
                   <<"heatmap", corr(filtered_df)>> >>]

\* ------------------------------------------------------------------ state
VARIABLES
    disk,         \* data/avanco_ia_empresas.csv: <<>> when missing, else <<table>>
    image,        \* TRUE iff assets/logo-faccat.png can be opened
    cache,        \* what st.cache_data holds for load_data: <<>> or <<table>>
    reads,        \* completed pd.read_csv calls
    slider_release, \* what the installed Streamlit does with a slider whose
                  \* min_value = max_value: "refuses", "draws", or "unknown"
                  \* while no run has reached such a slider
    session,      \* the widgets the browser holds values for: "new" none,
                  \* "partial" the two multiselects, "live" all of them
    countries,    \* value of the countries multiselect (a set)
    sectors,      \* value of the sectors multiselect (a set)
    year_range,   \* value of the year slider, <<lo, hi>>
    page,         \* value of the navigation selectbox
    selected,     \* value of the page's own selectbox: <<>> or <<name>>
    main_df,      \* main's df of the last run that got past load_data
    filtered_df,  \* main's filtered_df of the last run that reached line 264
    view,         \* what the last run put on the screen
    snap          \* observer: a remembered earlier render, <<>> or <<record>>

vars == <<disk, image, cache, reads, slider_release, session, countries, sectors, year_range, page,
          selected, main_df, filtered_df, view, snap>>

\* a run that ended in an uncaught exception: Streamlit shows the exception
\* below whatever was drawn before it
Crashed(exception, sidebar) ==
    [status |-> "error", exception |-> exception, sidebar |-> sidebar, body |-> <<>>]

\* the sidebar elements of lines 35-48, then those of lines 50-60 and the help
SidebarUpToSectors == <<"logo", "header", "countries", "sectors">>
SidebarAll == SidebarUpToSectors \o <<"years", "page", "help">>

Rendered(body) ==
    [status |-> "ok", exception |-> "", sidebar |-> SidebarAll, body |-> <<body>>]

cache_hit_never(c) == FALSE

\* @st.cache_data: is the result of load_data() already stored?
cache_hit(c) == c # <<>>

\* load_data(): the cached table, else pd.read_csv, which raises when the file
\* is missing and whose result is stored otherwise
load_data ==
    IF cache_hit(cache)
    THEN [raised |-> FALSE, df |-> cache[1], cache |-> cache, reads |-> reads]
    ELSE IF disk = <<>>
    THEN [raised |-> TRUE, df |-> <<>>, cache |-> cache, reads |-> reads]
    ELSE [raised |-> FALSE, df |-> disk[1], cache |-> disk, reads |-> reads + 1]

\* A run receives w, the values the browser holds: per widget <<>> (it holds
\* none, the widget takes its default) or <<value>>; w.pick is <<x>> when the
\* run was triggered by choosing x in a page's own selectbox.

\* lines 38-48: the two multiselects, default every value of the column
multiselects(df, w) ==
    [countries |-> IF w.countries = <<>> THEN Range(unique(Column(df, "pais_sede")))
                   ELSE w.countries[1],
     sectors |-> IF w.sectors = <<>> THEN Range(unique(Column(df, "setor")))
                 ELSE w.sectors[1]]

\* render_sidebar_filters(df): the values of the four widgets
render_sidebar_filters(df, w) ==
    [countries |-> multiselects(df, w).countries,
     sectors |-> multiselects(df, w).sectors,
     year_range |-> IF w.year_range = <<>>
                    THEN <<SeriesMin(Column(df, "ano")), SeriesMax(Column(df, "ano"))>>
                    ELSE w.year_range[1],
     page |-> IF w.page = <<>> THEN Pages[1] ELSE w.page[1],
     pick |-> w.pick]

\* st.selectbox(label, options) of the company and sector pages.  pick is <<x>>
\* when this run was triggered by the user choosing x.  Otherwise the widget
\* keeps its value while it is drawn again with the same options, and starts
\* at the first option (None without options) when it is new.
selectbox(pg, options, pick) ==
    IF pick # <<>> THEN pick
    ELSE IF /\ view.status = "ok"
            /\ page = pg
            /\ view.body[1].options = options
            /\ selected # <<>>
         THEN selected
    ELSE IF options = <<>> THEN <<>> ELSE <<options[1]>>

dispatch_keeps_overview(pg, fdf, pick) ==
    IF pg = Pages[1]
    THEN IF view.status = "ok" /\ page = pg THEN view.body[1]
         ELSE render_overview_page(fdf)
    ELSE IF pg = Pages[2]
    THEN render_company_page(fdf, selectbox(pg, unique(Column(fdf, "empresa")), pick))
    ELSE IF pg = Pages[3]
    THEN render_sector_page(fdf, selectbox(pg, unique(Column(fdf, "setor")), pick))
    ELSE render_trends_page(fdf)

\* the if/elif chain of main
dispatch(pg, fdf, pick) ==
    IF pg = Pages[1] THEN render_overview_page(fdf)
    ELSE IF pg = Pages[2]
    THEN render_company_page(fdf, selectbox(pg, unique(Column(fdf, "empresa")), pick))
    ELSE IF pg = Pages[3]
    THEN render_sector_page(fdf, selectbox(pg, unique(Column(fdf, "setor")), pick))
    ELSE render_trends_page(fdf)

\* an uncaught exception at line 35: nothing of the sidebar is drawn and the
\* browser's widget values stay as they were
RaiseAtLogo(exception, ld) ==
    /\ view' = Crashed(exception, <<>>)
    /\ main_df' = ld.df
    /\ UNCHANGED <<session, countries, sectors, year_range, page, selected, filtered_df>>

\* an uncaught exception at lines 50-55: the logo, the header and the two
\* multiselects were drawn before it, and the browser now holds their values
RaiseAtSlider(exception, ld, w) ==
    /\ view' = Crashed(exception, SidebarUpToSectors)
    /\ main_df' = ld.df
    /\ session' = IF session = "new" THEN "partial" ELSE session
    /\ countries' = multiselects(ld.df, w).countries
    /\ sectors' = multiselects(ld.df, w).sectors
    /\ UNCHANGED <<year_range, page, selected, filtered_df>>

\* lines 262-273: the widgets return their values, the table is filtered and
\* the selected page is drawn
Draw(ld, w) ==
    LET v == render_sidebar_filters(ld.df, w)
        fdf == filter_data(ld.df, v.countries, v.sectors, v.year_range)
        body == dispatch(v.page, fdf, v.pick)
    IN /\ session' = "live"
       /\ countries' = v.countries
       /\ sectors' = v.sectors
       /\ year_range' = v.year_range
       /\ page' = v.page
       /\ main_df' = ld.df
       /\ filtered_df' = fdf
       /\ selected' = body.selected
       /\ view' = Rendered(body)

\* One run of the script, top to bottom.
main(w) ==
    LET ld == load_data
    IN /\ cache' = ld.cache
       /\ reads' = ld.reads
       /\ UNCHANGED <<disk, image, snap>>
       /\ IF ld.raised
          THEN \* line 261: pd.read_csv raises FileNotFoundError
               /\ view' = Crashed("FileNotFoundError", <<>>)
               /\ UNCHANGED <<slider_release, session, countries, sectors, year_range,
                              page, selected, main_df, filtered_df>>
          ELSE IF ~image
          THEN \* line 35: st.sidebar.image cannot open the file
               RaiseAtLogo("MediaFileStorageError", ld) /\ UNCHANGED slider_release
          ELSE IF ld.df = <<>>
          THEN \* line 52: int(nan), the min() of an empty column
               RaiseAtSlider("ValueError", ld, w) /\ UNCHANGED slider_release
          ELSE IF SeriesMin(Column(ld.df, "ano")) = SeriesMax(Column(ld.df, "ano"))
          THEN \* line 50: a slider with min_value = max_value is refused by some
               \* Streamlit releases and drawn by others; the installed release
               \* shows which it is at the first such slider
               \/ /\ slider_release \in {"unknown", "refuses"}
                  /\ slider_release' = "refuses"
                  /\ RaiseAtSlider("StreamlitAPIException", ld, w)
               \/ /\ slider_release \in {"unknown", "draws"}
                  /\ slider_release' = "draws"
                  /\ Draw(ld, w)
          ELSE Draw(ld, w) /\ UNCHANGED slider_release

\* the widget values the browser holds, as sent with the next run
Widgets ==
    [countries |-> IF session = "new" THEN <<>> ELSE <<countries>>,
     sectors |-> IF session = "new" THEN <<>> ELSE <<sectors>>,
     year_range |-> IF session = "live" THEN <<year_range>> ELSE <<>>,
     page |-> IF session = "live" THEN <<page>> ELSE <<>>,
     pick |-> <<>>]

\* ---------------------------------------------------------------- actions
\* opening (or reloading) the app before any widget exists
Start ==
    /\ session = "new"
    /\ main(Widgets)

\* the user changes the countries multiselect
SetCountries(S) ==
    /\ session \in {"partial", "live"}
    /\ S \subseteq Range(unique(Column(main_df, "pais_sede")))
    /\ S # countries
    /\ main([Widgets EXCEPT !.countries = <<S>>])

\* the user changes the sectors multiselect
SetSectors(S) ==
    /\ session \in {"partial", "live"}
    /\ S \subseteq Range(unique(Column(main_df, "setor")))
    /\ S # sectors
    /\ main([Widgets EXCEPT !.sectors = <<S>>])

\* the user moves the year slider within [min, max]; its handles cannot cross
SetYears(lo, hi) ==
    /\ session = "live"
    /\ SeriesMin(Column(main_df, "ano")) <= lo
    /\ lo <= hi
    /\ hi <= SeriesMax(Column(main_df, "ano"))
    /\ <<lo, hi>> # year_range
    /\ main([Widgets EXCEPT !.year_range = << <<lo, hi>> >>])

\* the user picks another page
SetPage(p) ==
    /\ session = "live"
    /\ p \in Range(Pages)
    /\ p # page
    /\ main([Widgets EXCEPT !.page = <<p>>])

\* the user picks a company in the company page's selectbox
SelectCompany(c) ==
    /\ session = "live"
    /\ page = Pages[2]
    /\ c \in Range(view.body[1].options)
    /\ <<c>> # selected
    /\ main([Widgets EXCEPT !.pick = <<c>>])

\* the user picks a sector in the sector page's selectbox
SelectSector(s) ==
    /\ session = "live"
    /\ page = Pages[3]
    /\ s \in Range(view.body[1].options)
    /\ <<s>> # selected
    /\ main([Widgets EXCEPT !.pick = <<s>>])

\* observer: remember the render on the screen together with its inputs
Snapshot ==
    /\ view.status = "ok"
    /\ snap' = <<[countries |-> countries, sectors |-> sectors, year_range |-> year_range,
                  page |-> page, selected |-> selected, view |-> view]>>
    /\ UNCHANGED <<disk, image, cache, reads, slider_release, session, countries,
                   sectors, year_range, page, selected, main_df, filtered_df, view>>

YearValues == 2020..2021

InitWith(tables) ==
    /\ disk \in {<<>>} \cup {<<d>> : d \in tables}
    /\ image \in BOOLEAN
    /\ cache = <<>>
    /\ reads = 0
    /\ slider_release = "unknown"
    /\ session = "new"
    /\ countries = {}
    /\ sectors = {}
    /\ year_range = <<0, 0>>
    /\ page = Pages[1]
    /\ selected = <<>>
    /\ main_df = <<>>
    /\ filtered_df = <<>>
    /\ view = [status |-> "none", exception |-> "", sidebar |-> <<>>, body |-> <<>>]
    /\ snap = <<>>

Init == InitWith(Datasets)

Next ==
    \/ Start
    \/ \E S \in SUBSET Range(Countries) : SetCountries(S)
    \/ \E S \in SUBSET Range(Sectors) : SetSectors(S)
    \/ \E lo \in YearValues, hi \in YearValues : SetYears(lo, hi)
    \/ \E p \in Range(Pages) : SetPage(p)
    \/ \E c \in Range(Companies) : SelectCompany(c)
    \/ \E s \in Range(Sectors) : SelectSector(s)

Spec == Init /\ [][Next]_vars

\* the same program on short tables, with the observer
InitReactive == InitWith({d \in Datasets : Len(d) <= MaxRowsReactive})

NextReactive == Next \/ Snapshot

SpecReactive == InitReactive /\ [][NextReactive]_vars

\* ------------------------------------------------------------ properties
\* sum of f[i] over the indices i in S
RECURSIVE SumOver(_, _)
SumOver(f, S) ==
    IF S = {} THEN 0
    ELSE LET i == CHOOSE j \in S : TRUE IN f[i] + SumOver(f, S \ {i})

\* the three predicates of the filter, on the widget values of the last run
Kept(r) ==
    /\ r.pais_sede \in countries
    /\ r.setor \in sectors
    /\ year_range[1] <= r.ano
    /\ r.ano <= year_range[2]

KeptRows == {i \in 1..Len(main_df) : Kept(main_df[i])}

\* the page on the screen
Body == view.body[1]

\* total investment of the filtered rows whose column col equals k
TotalWhere(col, k) ==
    SumOver(Column(filtered_df, "investimento_ia_usd_milhoes"),
            {i \in 1..Len(filtered_df) : filtered_df[i][col] = k})

FilteredTotal == SumOver(Column(filtered_df, "investimento_ia_usd_milhoes"),
                         1..Len(filtered_df))

FilteredCompanies == {filtered_df[i].empresa : i \in 1..Len(filtered_df)}
FilteredSectors == {filtered_df[i].setor : i \in 1..Len(filtered_df)}

AllCountries == {main_df[i].pais_sede : i \in 1..Len(main_df)}
AllSectors == {main_df[i].setor : i \in 1..Len(main_df)}
AllYears == {main_df[i].ano : i \in 1..Len(main_df)}

\* the widgets hold the values the sidebar pre-populates
AtDefaults ==
    /\ countries = AllCountries
    /\ sectors = AllSectors
    /\ \A y \in AllYears : year_range[1] <= y /\ y <= year_range[2]
    /\ year_range[1] \in AllYears
    /\ year_range[2] \in AllYears

\* C1: after every run that filtered, filtered_df holds exactly the rows of the
\* table that satisfy all three predicates (country in the set, sector in the
\* set, lo <= year <= hi), each once, in table order: none that violates a
\* predicate, none that satisfies all three missing.
C1_FilterSoundComplete ==
    view.status = "ok" =>
        /\ \A i \in 1..Len(filtered_df) : Kept(filtered_df[i])
        /\ Len(filtered_df) = Cardinality(KeptRows)
        /\ \A i \in KeptRows :
              filtered_df[Cardinality({j \in KeptRows : j <= i})] = main_df[i]

\* a run whose filter kept a row and dropped one row for each single predicate
C1_Witness ==
    /\ view.status = "ok"
    /\ filtered_df # <<>>
    /\ year_range[1] < year_range[2]
    /\ \E i \in 1..Len(main_df) :
          /\ main_df[i].pais_sede \notin countries
          /\ main_df[i].setor \in sectors
          /\ year_range[1] <= main_df[i].ano /\ main_df[i].ano <= year_range[2]
    /\ \E i \in 1..Len(main_df) :
          /\ main_df[i].pais_sede \in countries
          /\ main_df[i].setor \notin sectors
          /\ year_range[1] <= main_df[i].ano /\ main_df[i].ano <= year_range[2]
    /\ \E i \in 1..Len(main_df) :
          /\ main_df[i].pais_sede \in countries
          /\ main_df[i].setor \in sectors
          /\ main_df[i].ano = year_range[2]

\* C2: with every country and every sector of the table selected and the year
\* slider at [min year, max year], the filter returns the whole table: the same
\* rows, as often, in the same order.
C2_IdentityAtDefaults ==
    (view.status = "ok" /\ AtDefaults) => filtered_df = main_df

\* a table with two countries, two sectors and two years, filtered at the defaults
C2_Witness ==
    /\ view.status = "ok"
    /\ AtDefaults
    /\ Cardinality(AllCountries) = 2
    /\ Cardinality(AllSectors) = 2
    /\ year_range[1] < year_range[2]
    /\ Len(filtered_df) >= 4

\* C3: an empty countries selection, or an empty sectors selection, leaves no
\* row, whatever the other selection and the year interval are.
C3_EmptySelectionEmptyResult ==
    (view.status = "ok" /\ (countries = {} \/ sectors = {})) => filtered_df = <<>>

\* no country selected while rows pass the sector and year predicates
C3_Witness ==
    /\ view.status = "ok"
    /\ countries = {}
    /\ sectors # {}
    /\ filtered_df = <<>>
    /\ \E i \in 1..Len(main_df) :
          /\ main_df[i].setor \in sectors
          /\ year_range[1] <= main_df[i].ano /\ main_df[i].ano <= year_range[2]

\* the rows the company or sector page narrows to
DrillDownRows ==
    {i \in 1..Len(filtered_df) :
        /\ selected # <<>>
        /\ filtered_df[i][IF page = Pages[2] THEN "empresa" ELSE "setor"] = selected[1]}

\* C4: on the company and sector pages, when the rows narrowed to the selected
\* company or sector are empty, the run ends normally with the warning shown
\* and neither a metric nor a chart.
C4_NoDataNotice ==
    (session = "live" /\ page \in {Pages[2], Pages[3]} /\ DrillDownRows = {}) =>
        /\ view.status = "ok"
        /\ Body.page = page
        /\ Body.warning
        /\ Body.metrics = <<>>
        /\ Body.charts = <<>>

\* the company page drawn over an empty filtered table
C4_Witness ==
    /\ session = "live"
    /\ page = Pages[2]
    /\ main_df # <<>>
    /\ filtered_df = <<>>
    /\ selected = <<>>
    /\ Body.warning

\* C5 as stated: a render is fixed by the table and the four sidebar controls
\* alone, so it equals any remembered render with the same four values.
C5_FourControlsDecide ==
    (/\ snap # <<>>
     /\ view.status = "ok"
     /\ snap[1].countries = countries
     /\ snap[1].sectors = sectors
     /\ snap[1].year_range = year_range
     /\ snap[1].page = page) => view = snap[1].view

\* C5 (amended): a render is fixed by the table, the four sidebar controls and
\* the value of the page's own selectbox (company or sector); it equals any
\* remembered render with the same five values, whatever happened in between.
C5_ControlsAndSelectionDecide ==
    (/\ snap # <<>>
     /\ view.status = "ok"
     /\ snap[1].countries = countries
     /\ snap[1].sectors = sectors
     /\ snap[1].year_range = year_range
     /\ snap[1].page = page
     /\ snap[1].selected = selected) => view = snap[1].view

\* the company page showing a company the user picked (not the first option),
\* equal in all five inputs to a remembered render
C5_Witness ==
    /\ snap # <<>>
    /\ view.status = "ok"
    /\ page = Pages[2]
    /\ selected # <<>>
    /\ selected[1] # Body.options[1]
    /\ snap[1].countries = countries
    /\ snap[1].sectors = sectors
    /\ snap[1].year_range = year_range
    /\ snap[1].page = page
    /\ snap[1].selected = selected

\* C6: the file is read at most once; what is cached is the file's table and
\* never changes; every run is handed that table.
C6_LoadedOnceImmutable ==
    /\ reads <= 1
    /\ (cache = <<>>) = (reads = 0)
    /\ cache # <<>> => cache = disk
    /\ view.status \in {"ok", "error"} /\ cache # <<>> => main_df = cache[1]

\* several interactions after the load: another page, a narrowed filter
C6_Witness ==
    /\ reads = 1
    /\ view.status = "ok"
    /\ page = Pages[4]
    /\ countries # AllCountries
    /\ filtered_df # <<>>
    /\ filtered_df # main_df

\* the list of the overview's top-companies bar chart
TopList == Body.charts[2][2]

\* C7: the top-companies list has min(10, distinct companies) entries, one per
\* company, each a company of the filtered set with its total investment, in
\* descending order of total, and no company left out has a larger total than
\* a listed one.
C7_TopTen ==
    (view.status = "ok" /\ page = Pages[1]) =>
        /\ Len(TopList) = Min(10, Cardinality(FilteredCompanies))
        /\ \A i \in 1..Len(TopList) :
              /\ TopList[i][1] \in FilteredCompanies
              /\ TopList[i][2] = TotalWhere("empresa", TopList[i][1])
        /\ \A i, j \in 1..Len(TopList) :
              /\ i < j => TopList[i][2] >= TopList[j][2]
              /\ i # j => TopList[i][1] # TopList[j][1]
        /\ \A c \in FilteredCompanies \ {TopList[i][1] : i \in 1..Len(TopList)} :
              \A i \in 1..Len(TopList) : TotalWhere("empresa", c) <= TopList[i][2]

\* more than ten companies, the list cut at ten with a tie across the cut
C7_Witness ==
    /\ view.status = "ok"
    /\ page = Pages[1]
    /\ Cardinality(FilteredCompanies) > 10
    /\ Len(TopList) = 10
    /\ TopList[1][2] > TopList[10][2]
    /\ \E c \in FilteredCompanies \ {TopList[i][1] : i \in 1..Len(TopList)} :
          TotalWhere("empresa", c) = TopList[10][2]

\* the scenario of the two records A and B, filtered by Finance and 2020..2021
ExampleScenario ==
    /\ view.status = "ok"
    /\ main_df = ExampleDataset
    /\ countries = AllCountries
    /\ sectors = {"Finance"}
    /\ year_range = <<2020, 2021>>
    /\ page = Pages[1]

\* C8: the overview shows the sum of the investments of the filtered rows, the
\* number of distinct company names among them, and the plain mean of their
\* profit growth printed to two decimals ("nan" for no rows); in the scenario
\* of A and B both rows pass and it shows 30.00, 2 and 1.50.
C8_OverviewMetrics ==
    (view.status = "ok" /\ page = Pages[1]) =>
        /\ Body.metrics[1][2] = <<100 * FilteredTotal, "">>
        /\ Body.metrics[2][2] = Cardinality(FilteredCompanies)
        /\ LET n == Len(filtered_df)
               g == SumOver(Column(filtered_df, "crescimento_lucro_pct"), 1..n)
               m == Body.metrics[3][2]
               d == m[1][1] * n - 100 * g
           IN IF n = 0 THEN m = <<>>
              ELSE /\ Len(m) = 1
                   /\ 2 * d <= n /\ 2 * d >= -n
                   /\ (m[1][2] = "-") = (g < 0)
        /\ ExampleScenario =>
              /\ filtered_df = ExampleDataset
              /\ Body.metrics[1][2] = <<3000, "">>
              /\ Body.metrics[2][2] = 2
              /\ Body.metrics[3][2] = << <<150, "">> >>

\* the scenario of A and B on the screen
C8_Witness == ExampleScenario /\ Len(filtered_df) = 2

\* the slices of the overview's pie
PieSlices == Body.charts[3][2]

\* C9: the pie has exactly one slice per sector of the filtered set, none for
\* another sector, each the investment of that sector's filtered rows, and the
\* slices add up to the total investment of the filtered set.
C9_PieShares ==
    (view.status = "ok" /\ page = Pages[1]) =>
        /\ {PieSlices[i][1] : i \in 1..Len(PieSlices)} = FilteredSectors
        /\ Len(PieSlices) = Cardinality(FilteredSectors)
        /\ \A i \in 1..Len(PieSlices) :
              PieSlices[i][2] = TotalWhere("setor", PieSlices[i][1])
        /\ SumOver([i \in 1..Len(PieSlices) |-> PieSlices[i][2]], 1..Len(PieSlices))
              = FilteredTotal

\* two sectors in the filtered set, one of them with several rows
C9_Witness ==
    /\ view.status = "ok"
    /\ page = Pages[1]
    /\ Cardinality(FilteredSectors) = 2
    /\ Len(filtered_df) >= 3
    /\ filtered_df # main_df

\* C10 as stated: without the data file the run fails and draws no view; with
\* the data file (a table the sidebar can be drawn for: rows of at least two
\* years) the whole sidebar and the selected page are drawn even when the logo
\* file is missing.
C10_LogoOptional ==
    view.status # "none" =>
        /\ disk = <<>> =>
              (view.status = "error" /\ view.sidebar = <<>> /\ view.body = <<>>)
        /\ (disk # <<>> /\ disk[1] # <<>> /\ ~image
               /\ \E i, j \in 1..Len(disk[1]) : disk[1][i].ano # disk[1][j].ano) =>
              (view.status = "ok" /\ view.sidebar = SidebarAll /\ view.body # <<>>)

====
